---- MODULE Spec2Model ----
(***************************************************************************)
(* Model of the transaction processor: the five event handlers of          *)
(* processor.rs, the in-memory store of store.rs and the replay loop of    *)
(* CsvSingleProcessRunner::run in runner.rs.                               *)
(*                                                                         *)
(* Amounts are f64 in the source.  The model takes them as signed decimal  *)
(* amounts counted in whole units (bounded integers, exact arithmetic);    *)
(* 0.0 and -0.0 compare equal in the source and are the one integer 0.     *)
(* Option<T> is modelled as a sequence of length 0 (None) or 1 (Some).     *)
(***************************************************************************)
EXTENDS Integers, Sequences, FiniteSets, TLC

\* ---- bounds of the model ----
MaxClientId == 1
MaxTxId == 1
MaxAmount == 1
MaxRecords == 4

ClientIds == 0..MaxClientId
TxIds == 0..MaxTxId
Amounts == (0 - MaxAmount)..MaxAmount

\* ---- Option<T> ----
None == << >>
Some(x) == << x >>
is_some(o) == Len(o) = 1
is_none(o) == Len(o) = 0
unwrap(o) == o[1]

\* ---- runner.rs: EventType, Event ----
EventType == {"Deposit", "Withdrawal", "Dispute", "Resolve", "Chargeback"}

Event == [event_type : EventType, client : ClientIds, tx : TxIds,
          amount : {None} \cup {Some(a) : a \in Amounts}]

\* A record of the stream that does not deserialize into an Event.
Malformed == [event_type |-> "Malformed", client |-> 0, tx |-> 0, amount |-> None]

\* ---- store.rs: Client, Transaction and their Default ----
ClientDefault == [id |-> 0, available |-> 0, held |-> 0, locked |-> FALSE]

TransactionDefault == [id |-> 0, client |-> 0, amount |-> 0, disputed |-> FALSE]

\* ---- processor.rs: ProcessorError and its Display text ----
ProcessorError == {"TransactionExists", "NoAmount", "ClientLocked",
                   "WithdrawalAboveBalance", "ClientMissing",
                   "ClientTransactionMismatch", "TransactionMissing",
                   "TransactionDisputed", "WithdrawalNotDisputable",
                   "TransactionNotDisputed"}

to_string(e) ==
    CASE e = "TransactionExists" -> "Attempted processing of transaction that has already been processed"
      [] e = "NoAmount" -> "Amount not specified for transaction"
      [] e = "ClientLocked" -> "Attempted to deposit or withdraw on locked client account"
      [] e = "WithdrawalAboveBalance" -> "Withdrawal exceeds client withdrawable (free) balance"
      [] e = "ClientMissing" -> "Dispute or withdrawal refers to nonexistent client"
      [] e = "ClientTransactionMismatch" -> "Client and transaction do not match in alleged dispute"
      [] e = "TransactionMissing" -> "Dispute refers to nonexistent transaction"
      [] e = "TransactionDisputed" -> "Attempted to open duplicate dispute on transaction"
      [] e = "WithdrawalNotDisputable" -> "Attempted to open dispute on withdrawal transaction"
      [] e = "TransactionNotDisputed" -> "Attempted to close a dispute on a non-disputed transaction"
      [] OTHER -> "CSV deserialize error"

\* Result<(Client, Transaction), ProcessorError>
Ok(client, tx) == [ok |-> TRUE, client |-> client, tx |-> tx]
Err(e) == [ok |-> FALSE, err |-> e]

\* ---- processor.rs: the five handlers ----
\* Variant: the uniqueness check on the tx id is missing.
DepositProcessor_NoUniqueCheck(maybe_tx, maybe_client, event) ==
    IF is_some(maybe_client) /\ unwrap(maybe_client).locked THEN Err("ClientLocked")
    ELSE IF is_none(event.amount) THEN Err("NoAmount")
    ELSE LET amount == unwrap(event.amount)
             base == IF is_some(maybe_client) THEN unwrap(maybe_client) ELSE ClientDefault
             client == [base EXCEPT !.id = event.client,
                                    !.available = base.available + amount]
             tx == [id |-> event.tx, client |-> event.client,
                    amount |-> amount, disputed |-> FALSE]
         IN Ok(client, tx)

\* Variant: the id of a new client is not copied from the event.
DepositProcessor_KeepsDefaultId(maybe_tx, maybe_client, event) ==
    IF is_some(maybe_tx) THEN Err("TransactionExists")
    ELSE IF is_some(maybe_client) /\ unwrap(maybe_client).locked THEN Err("ClientLocked")
    ELSE IF is_none(event.amount) THEN Err("NoAmount")
    ELSE LET amount == unwrap(event.amount)
             base == IF is_some(maybe_client) THEN unwrap(maybe_client) ELSE ClientDefault
             client == [base EXCEPT !.available = base.available + amount]
             tx == [id |-> event.tx, client |-> event.client,
                    amount |-> amount, disputed |-> FALSE]
         IN Ok(client, tx)

\* Variant: the amount is checked before the lock.
DepositProcessor_AmountFirst(maybe_tx, maybe_client, event) ==
    IF is_some(maybe_tx) THEN Err("TransactionExists")
    ELSE IF is_none(event.amount) THEN Err("NoAmount")
    ELSE IF is_some(maybe_client) /\ unwrap(maybe_client).locked THEN Err("ClientLocked")
    ELSE LET amount == unwrap(event.amount)
             base == IF is_some(maybe_client) THEN unwrap(maybe_client) ELSE ClientDefault
             client == [base EXCEPT !.id = event.client,
                                    !.available = base.available + amount]
             tx == [id |-> event.tx, client |-> event.client,
                    amount |-> amount, disputed |-> FALSE]
         IN Ok(client, tx)

DepositProcessor(maybe_tx, maybe_client, event) ==
    IF is_some(maybe_tx) THEN Err("TransactionExists")
    ELSE IF is_some(maybe_client) /\ unwrap(maybe_client).locked THEN Err("ClientLocked")
    ELSE IF is_none(event.amount) THEN Err("NoAmount")
    ELSE LET amount == unwrap(event.amount)
             base == IF is_some(maybe_client) THEN unwrap(maybe_client) ELSE ClientDefault
             client == [base EXCEPT !.id = event.client,
                                    !.available = base.available + amount]
             tx == [id |-> event.tx, client |-> event.client,
                    amount |-> amount, disputed |-> FALSE]
         IN Ok(client, tx)

\* Variant: an absent client is taken as Client::default() instead of rejected.
WithdrawalProcessor_CreatesClient(maybe_tx, maybe_client, event) ==
    IF is_some(maybe_tx) THEN Err("TransactionExists")
    ELSE IF is_none(event.amount) THEN Err("NoAmount")
    ELSE LET amount == unwrap(event.amount)
             client == IF is_some(maybe_client) THEN unwrap(maybe_client)
                       ELSE [ClientDefault EXCEPT !.id = event.client]
         IN IF client.locked THEN Err("ClientLocked")
            ELSE IF amount > client.available THEN Err("WithdrawalAboveBalance")
            ELSE Ok([client EXCEPT !.available = client.available - amount],
                    [id |-> event.tx, client |-> event.client,
                     amount |-> amount * (0 - 1), disputed |-> FALSE])

\* Variant: the locked check is missing.
WithdrawalProcessor_NoLockCheck(maybe_tx, maybe_client, event) ==
    IF is_some(maybe_tx) THEN Err("TransactionExists")
    ELSE IF is_none(event.amount) THEN Err("NoAmount")
    ELSE IF is_none(maybe_client) THEN Err("ClientMissing")
    ELSE LET amount == unwrap(event.amount)
             client == unwrap(maybe_client)
         IN IF amount > client.available THEN Err("WithdrawalAboveBalance")
            ELSE Ok([client EXCEPT !.available = client.available - amount],
                    [id |-> event.tx, client |-> event.client,
                     amount |-> amount * (0 - 1), disputed |-> FALSE])

\* Variant: the balance check is missing.
WithdrawalProcessor_NoBalanceCheck(maybe_tx, maybe_client, event) ==
    IF is_some(maybe_tx) THEN Err("TransactionExists")
    ELSE IF is_none(event.amount) THEN Err("NoAmount")
    ELSE IF is_none(maybe_client) THEN Err("ClientMissing")
    ELSE LET amount == unwrap(event.amount)
             client == unwrap(maybe_client)
         IN IF client.locked THEN Err("ClientLocked")
            ELSE Ok([client EXCEPT !.available = client.available - amount],
                    [id |-> event.tx, client |-> event.client,
                     amount |-> amount * (0 - 1), disputed |-> FALSE])

\* Variant: the amount is stored without the sign flip.
WithdrawalProcessor_StoresPositive(maybe_tx, maybe_client, event) ==
    IF is_some(maybe_tx) THEN Err("TransactionExists")
    ELSE IF is_none(event.amount) THEN Err("NoAmount")
    ELSE IF is_none(maybe_client) THEN Err("ClientMissing")
    ELSE LET amount == unwrap(event.amount)
             client == unwrap(maybe_client)
         IN IF client.locked THEN Err("ClientLocked")
            ELSE IF amount > client.available THEN Err("WithdrawalAboveBalance")
            ELSE Ok([client EXCEPT !.available = client.available - amount],
                    [id |-> event.tx, client |-> event.client,
                     amount |-> amount, disputed |-> FALSE])

WithdrawalProcessor(maybe_tx, maybe_client, event) ==
    IF is_some(maybe_tx) THEN Err("TransactionExists")
    ELSE IF is_none(event.amount) THEN Err("NoAmount")
    ELSE IF is_none(maybe_client) THEN Err("ClientMissing")
    ELSE LET amount == unwrap(event.amount)
             client == unwrap(maybe_client)
         IN IF client.locked THEN Err("ClientLocked")
            ELSE IF amount > client.available THEN Err("WithdrawalAboveBalance")
            ELSE Ok([client EXCEPT !.available = client.available - amount],
                    [id |-> event.tx, client |-> event.client,
                     amount |-> amount * (0 - 1), disputed |-> FALSE])

\* Variant: the written-back transaction loses its amount.
DisputeProcessor_RewritesTx(maybe_tx, maybe_client, event) ==
    IF is_none(maybe_tx) THEN Err("TransactionMissing")
    ELSE LET tx == unwrap(maybe_tx)
         IN IF tx.disputed THEN Err("TransactionDisputed")
            ELSE IF tx.amount < 0 THEN Err("WithdrawalNotDisputable")
            ELSE IF is_none(maybe_client) THEN Err("ClientMissing")
            ELSE LET client == unwrap(maybe_client)
                 IN IF tx.client # client.id THEN Err("ClientTransactionMismatch")
                    ELSE Ok([client EXCEPT !.available = client.available - tx.amount,
                                           !.held = client.held + tx.amount],
                            [tx EXCEPT !.disputed = TRUE, !.amount = 0])

\* Variant: the client is rebuilt from Client::default(), dropping locked.
DisputeProcessor_RebuildsClient(maybe_tx, maybe_client, event) ==
    IF is_none(maybe_tx) THEN Err("TransactionMissing")
    ELSE LET tx == unwrap(maybe_tx)
         IN IF tx.disputed THEN Err("TransactionDisputed")
            ELSE IF tx.amount < 0 THEN Err("WithdrawalNotDisputable")
            ELSE IF is_none(maybe_client) THEN Err("ClientMissing")
            ELSE LET client == unwrap(maybe_client)
                 IN IF tx.client # client.id THEN Err("ClientTransactionMismatch")
                    ELSE Ok([ClientDefault EXCEPT !.id = client.id,
                                                  !.available = client.available - tx.amount,
                                                  !.held = client.held + tx.amount],
                            [tx EXCEPT !.disputed = TRUE])

\* Variant: the owner of the transaction is not compared with the client.
DisputeProcessor_NoMatchCheck(maybe_tx, maybe_client, event) ==
    IF is_none(maybe_tx) THEN Err("TransactionMissing")
    ELSE LET tx == unwrap(maybe_tx)
         IN IF tx.disputed THEN Err("TransactionDisputed")
            ELSE IF tx.amount < 0 THEN Err("WithdrawalNotDisputable")
            ELSE IF is_none(maybe_client) THEN Err("ClientMissing")
            ELSE LET client == unwrap(maybe_client)
                 IN Ok([client EXCEPT !.available = client.available - tx.amount,
                                      !.held = client.held + tx.amount],
                       [tx EXCEPT !.disputed = TRUE])

\* Variant: a dispute that would take available below zero is rejected.
DisputeProcessor_FloorCheck(maybe_tx, maybe_client, event) ==
    IF is_none(maybe_tx) THEN Err("TransactionMissing")
    ELSE LET tx == unwrap(maybe_tx)
         IN IF tx.disputed THEN Err("TransactionDisputed")
            ELSE IF tx.amount < 0 THEN Err("WithdrawalNotDisputable")
            ELSE IF is_none(maybe_client) THEN Err("ClientMissing")
            ELSE LET client == unwrap(maybe_client)
                 IN IF tx.client # client.id THEN Err("ClientTransactionMismatch")
                    ELSE IF tx.amount > client.available THEN Err("WithdrawalAboveBalance")
                    ELSE Ok([client EXCEPT !.available = client.available - tx.amount,
                                           !.held = client.held + tx.amount],
                            [tx EXCEPT !.disputed = TRUE])

DisputeProcessor(maybe_tx, maybe_client, event) ==
    IF is_none(maybe_tx) THEN Err("TransactionMissing")
    ELSE LET tx == unwrap(maybe_tx)
         IN IF tx.disputed THEN Err("TransactionDisputed")
            ELSE IF tx.amount < 0 THEN Err("WithdrawalNotDisputable")
            ELSE IF is_none(maybe_client) THEN Err("ClientMissing")
            ELSE LET client == unwrap(maybe_client)
                 IN IF tx.client # client.id THEN Err("ClientTransactionMismatch")
                    ELSE Ok([client EXCEPT !.available = client.available - tx.amount,
                                           !.held = client.held + tx.amount],
                            [tx EXCEPT !.disputed = TRUE])

\* Variant: the client is looked at before the dispute state of the transaction.
ResolveProcessor_ClientFirst(maybe_tx, maybe_client, event) ==
    IF is_none(maybe_tx) THEN Err("TransactionMissing")
    ELSE IF is_none(maybe_client) THEN Err("ClientMissing")
    ELSE LET tx == unwrap(maybe_tx)
             client == unwrap(maybe_client)
         IN IF tx.client # client.id THEN Err("ClientTransactionMismatch")
            ELSE IF ~tx.disputed THEN Err("TransactionNotDisputed")
            ELSE Ok([client EXCEPT !.available = client.available + tx.amount,
                                   !.held = client.held - tx.amount],
                    [tx EXCEPT !.disputed = FALSE])

\* Variant: the held funds are released but stay counted as held.
ResolveProcessor_KeepsHeld(maybe_tx, maybe_client, event) ==
    IF is_none(maybe_tx) THEN Err("TransactionMissing")
    ELSE LET tx == unwrap(maybe_tx)
         IN IF ~tx.disputed THEN Err("TransactionNotDisputed")
            ELSE IF is_none(maybe_client) THEN Err("ClientMissing")
            ELSE LET client == unwrap(maybe_client)
                 IN IF tx.client # client.id THEN Err("ClientTransactionMismatch")
                    ELSE Ok([client EXCEPT !.available = client.available + tx.amount],
                            [tx EXCEPT !.disputed = FALSE])

ResolveProcessor(maybe_tx, maybe_client, event) ==
    IF is_none(maybe_tx) THEN Err("TransactionMissing")
    ELSE LET tx == unwrap(maybe_tx)
         IN IF ~tx.disputed THEN Err("TransactionNotDisputed")
            ELSE IF is_none(maybe_client) THEN Err("ClientMissing")
            ELSE LET client == unwrap(maybe_client)
                 IN IF tx.client # client.id THEN Err("ClientTransactionMismatch")
                    ELSE Ok([client EXCEPT !.available = client.available + tx.amount,
                                           !.held = client.held - tx.amount],
                            [tx EXCEPT !.disputed = FALSE])

\* Variant: the charged-back amount is also taken from available.
ChargebackProcessor_DebitsAvailable(maybe_tx, maybe_client, event) ==
    IF is_none(maybe_tx) THEN Err("TransactionMissing")
    ELSE LET tx == unwrap(maybe_tx)
         IN IF ~tx.disputed THEN Err("TransactionNotDisputed")
            ELSE IF is_none(maybe_client) THEN Err("ClientMissing")
            ELSE LET client == unwrap(maybe_client)
                 IN IF tx.client # client.id THEN Err("ClientTransactionMismatch")
                    ELSE Ok([client EXCEPT !.available = client.available - tx.amount,
                                           !.held = client.held - tx.amount,
                                           !.locked = TRUE],
                            [tx EXCEPT !.disputed = FALSE])

\* Variant: the charged-back amount stays in held.
ChargebackProcessor_KeepsHeld(maybe_tx, maybe_client, event) ==
    IF is_none(maybe_tx) THEN Err("TransactionMissing")
    ELSE LET tx == unwrap(maybe_tx)
         IN IF ~tx.disputed THEN Err("TransactionNotDisputed")
            ELSE IF is_none(maybe_client) THEN Err("ClientMissing")
            ELSE LET client == unwrap(maybe_client)
                 IN IF tx.client # client.id THEN Err("ClientTransactionMismatch")
                    ELSE Ok([client EXCEPT !.locked = TRUE],
                            [tx EXCEPT !.disputed = FALSE])

ChargebackProcessor(maybe_tx, maybe_client, event) ==
    IF is_none(maybe_tx) THEN Err("TransactionMissing")
    ELSE LET tx == unwrap(maybe_tx)
         IN IF ~tx.disputed THEN Err("TransactionNotDisputed")
            ELSE IF is_none(maybe_client) THEN Err("ClientMissing")
            ELSE LET client == unwrap(maybe_client)
                 IN IF tx.client # client.id THEN Err("ClientTransactionMismatch")
                    ELSE Ok([client EXCEPT !.held = client.held - tx.amount,
                                           !.locked = TRUE],
                            [tx EXCEPT !.disputed = FALSE])

\* runner.rs: the match on event.event_type that picks the handler
process_event(maybe_tx, maybe_client, event) ==
    CASE event.event_type = "Deposit" -> DepositProcessor(maybe_tx, maybe_client, event)
      [] event.event_type = "Withdrawal" -> WithdrawalProcessor(maybe_tx, maybe_client, event)
      [] event.event_type = "Dispute" -> DisputeProcessor(maybe_tx, maybe_client, event)
      [] event.event_type = "Resolve" -> ResolveProcessor(maybe_tx, maybe_client, event)
      [] event.event_type = "Chargeback" -> ChargebackProcessor(maybe_tx, maybe_client, event)

\* ---- store.rs: InMemoryStore ----
\* A store value is [clients : u16 -> Option<Client>, transactions : u32 -> Option<Transaction>]
StoreDefault == [clients |-> [c \in ClientIds |-> None],
                 transactions |-> [t \in TxIds |-> None]]

get_client(st, id) == st.clients[id]

get_transaction(st, id) == st.transactions[id]

\* Variant: every client is inserted under the key 0.
set_client_KeyZero(st, client) ==
    [st EXCEPT !.clients = [@ EXCEPT ![0] = Some(client)]]

set_client(st, client) ==
    [st EXCEPT !.clients = [@ EXCEPT ![client.id] = Some(client)]]

set_transaction(st, transaction) ==
    [st EXCEPT !.transactions = [@ EXCEPT ![transaction.id] = Some(transaction)]]

dump_clients(st) == {unwrap(st.clients[c]) : c \in {k \in ClientIds : is_some(st.clients[k])}}

\* runner.rs: impl Serialize for Client
serialize(client) ==
    [client |-> client.id, available |-> client.available, held |-> client.held,
     total |-> client.available + client.held, locked |-> client.locked]

\* runner.rs: the match on the handler's result (write back, or nothing)
\* Variant: the Err arm writes a default client.
write_back_OnErrorToo(st, result) ==
    IF result.ok THEN set_client(set_transaction(st, result.tx), result.client)
    ELSE set_client(st, ClientDefault)

write_back(st, result) ==
    IF result.ok THEN set_client(set_transaction(st, result.tx), result.client)
    ELSE st

\* ---- runner.rs: CsvSingleProcessRunner::run as a state machine ----
VARIABLES
    pc,                \* position in run(): "open", "loop", "done" or "failed"
    store,             \* self.store
    length,            \* number of records in the input stream (at most MaxRecords)
    consumed,          \* records of the input stream read so far
    event,             \* the record read last (an Event or Malformed)
    outcome,           \* result of the last record: "Ok", a ProcessorError or
                       \* "ParseError"; "None" while no record has been read
    logged,            \* message passed to logger.error for the last record, if any
    output,            \* rows written to stdout after the loop
    txOrigin,          \* history: event type whose handler created each transaction
    chargedBack,       \* history: tx ids of accepted chargebacks
    depositedClients,  \* history: client ids named by accepted deposits
    attempted,         \* history: tx ids carried by deposit/withdrawal records read so far
    chargedAmount,     \* history: per client, the sum of the amounts removed by accepted chargebacks
    beforeDispute      \* history: when the last record was an accepted dispute, or an
                       \* accepted dispute followed at once by the accepted resolve of
                       \* the same transaction: the client and the transaction as they
                       \* were before that dispute

vars == <<pc, store, length, consumed, event, outcome, logged, output,
          txOrigin, chargedBack, depositedClients, attempted, chargedAmount,
          beforeDispute>>

history == <<txOrigin, chargedBack, depositedClients, attempted, chargedAmount>>

Init ==
    /\ pc = "open"
    /\ store = StoreDefault
    /\ length \in 0..MaxRecords
    /\ consumed = 0
    /\ event = Malformed
    /\ outcome = "None"
    /\ logged = None
    /\ output = {}
    /\ txOrigin = [t \in TxIds |-> "None"]
    /\ chargedBack = {}
    /\ depositedClients = {}
    /\ attempted = {}
    /\ chargedAmount = [c \in ClientIds |-> 0]
    /\ beforeDispute = None

\* ReaderBuilder::from_path succeeds
OpenFile ==
    /\ pc = "open"
    /\ pc' = "loop"
    /\ UNCHANGED <<store, length, consumed, event, outcome, logged, output, history, beforeDispute>>

\* ReaderBuilder::from_path fails: run returns Err(RunnerError::FileError)
OpenFileFails ==
    /\ pc = "open"
    /\ pc' = "failed"
    /\ UNCHANGED <<store, length, consumed, event, outcome, logged, output, history, beforeDispute>>

\* One iteration of the for loop on a record that deserialized into ev.
HandleEvent(ev) ==
    /\ pc = "loop"
    /\ consumed < length
    /\ LET maybe_tx == get_transaction(store, ev.tx)
           maybe_client == get_client(store, ev.client)
           result == process_event(maybe_tx, maybe_client, ev)
       IN /\ store' = write_back(store, result)
          /\ outcome' = IF result.ok THEN "Ok" ELSE result.err
          /\ logged' = IF result.ok THEN None ELSE Some(to_string(result.err))
          /\ txOrigin' = IF result.ok /\ ev.event_type \in {"Deposit", "Withdrawal"}
                         THEN [txOrigin EXCEPT ![ev.tx] = ev.event_type]
                         ELSE txOrigin
          /\ chargedBack' = IF result.ok /\ ev.event_type = "Chargeback"
                            THEN chargedBack \cup {ev.tx} ELSE chargedBack
          /\ depositedClients' = IF result.ok /\ ev.event_type = "Deposit"
                                 THEN depositedClients \cup {ev.client}
                                 ELSE depositedClients
          /\ chargedAmount' = IF result.ok /\ ev.event_type = "Chargeback"
                              THEN [chargedAmount EXCEPT ![ev.client] = @ + result.tx.amount]
                              ELSE chargedAmount
          /\ beforeDispute' =
               IF result.ok /\ ev.event_type = "Dispute"
               THEN Some([client |-> unwrap(maybe_client), tx |-> unwrap(maybe_tx),
                          resolved |-> FALSE])
               ELSE IF /\ result.ok /\ ev.event_type = "Resolve"
                       /\ is_some(beforeDispute)
                       /\ ~unwrap(beforeDispute).resolved
                       /\ unwrap(beforeDispute).tx.id = ev.tx
               THEN Some([unwrap(beforeDispute) EXCEPT !.resolved = TRUE])
               ELSE None
    /\ attempted' = IF ev.event_type \in {"Deposit", "Withdrawal"}
                    THEN attempted \cup {ev.tx} ELSE attempted
    /\ event' = ev
    /\ consumed' = consumed + 1
    /\ UNCHANGED <<pc, length, output>>

Deposit == \E ev \in Event : ev.event_type = "Deposit" /\ HandleEvent(ev)

Withdrawal == \E ev \in Event : ev.event_type = "Withdrawal" /\ HandleEvent(ev)

Dispute == \E ev \in Event : ev.event_type = "Dispute" /\ HandleEvent(ev)

Resolve == \E ev \in Event : ev.event_type = "Resolve" /\ HandleEvent(ev)

Chargeback == \E ev \in Event : ev.event_type = "Chargeback" /\ HandleEvent(ev)

\* Variant: a record that fails to deserialize ends the run.
SkipMalformed_Aborts ==
    /\ pc = "loop"
    /\ consumed < length
    /\ event' = Malformed
    /\ outcome' = "ParseError"
    /\ logged' = Some(to_string("ParseError"))
    /\ consumed' = consumed + 1
    /\ beforeDispute' = None
    /\ pc' = "failed"
    /\ UNCHANGED <<store, length, output, history>>

\* One iteration of the for loop on a record that failed to deserialize.
SkipMalformed ==
    /\ pc = "loop"
    /\ consumed < length
    /\ event' = Malformed
    /\ outcome' = "ParseError"
    /\ logged' = Some(to_string("ParseError"))
    /\ consumed' = consumed + 1
    /\ beforeDispute' = None
    /\ UNCHANGED <<pc, store, length, output, history>>

\* The reader yields no further record: serialize every client to stdout and
\* return Ok(()).
DumpClients ==
    /\ pc = "loop"
    /\ consumed = length
    /\ output' = {serialize(c) : c \in dump_clients(store)}
    /\ pc' = "done"
    /\ UNCHANGED <<store, length, consumed, event, outcome, logged, history, beforeDispute>>

Next ==
    \/ OpenFile
    \/ OpenFileFails
    \/ Deposit
    \/ Withdrawal
    \/ Dispute
    \/ Resolve
    \/ Chargeback
    \/ SkipMalformed
    \/ DumpClients

Spec == Init /\ [][Next]_vars

\* run() is straight-line sequential code: while a step of it is possible
\* (open the file, read the next record, dump after the last one) it is taken.
FairSpec == Spec /\ WF_vars(Next)

\* ---- shorthands over the state ----
HasClient(c) == is_some(store.clients[c])
ClientOf(c) == unwrap(store.clients[c])
HasTx(t) == is_some(store.transactions[t])
TxOf(t) == unwrap(store.transactions[t])
Rejected == outcome \in ProcessorError

TypeOK ==
    /\ pc \in {"open", "loop", "done", "failed"}
    /\ length \in 0..MaxRecords
    /\ consumed \in 0..length
    /\ event \in Event \cup {Malformed}
    /\ outcome \in ProcessorError \cup {"Ok", "ParseError", "None"}
    /\ \A c \in ClientIds : HasClient(c) => ClientOf(c).id = c
    /\ \A t \in TxIds : HasTx(t) => TxOf(t).id = t

\* A step of the loop that read a record, and one whose record was an Event.
RecordStep == consumed' = consumed + 1
EventStep == RecordStep /\ event' \in Event
DepositOrWithdrawal == {"Deposit", "Withdrawal"}
DisputeKinds == {"Dispute", "Resolve", "Chargeback"}
Locked(st, c) == is_some(st.clients[c]) /\ unwrap(st.clients[c]).locked
Replay(st, ev) ==
    process_event(get_transaction(st, ev.tx), get_client(st, ev.client), ev)

\* ---- C1 ----
\* C1: an event that its handler rejects causes no store write: the client
\* map and the transaction map are the same before and after it, and running
\* the same event again on the resulting store gives the same rejection.
C1_RejectedEventWritesNothing ==
    [][(EventStep /\ outcome' \in ProcessorError)
        => /\ store'.clients = store.clients
           /\ store'.transactions = store.transactions
           /\ Replay(store', event') = Err(outcome')]_vars

C1_Witness ==
    /\ Rejected
    /\ \E c \in ClientIds : HasClient(c)
    /\ \E t \in TxIds : HasTx(t)

\* ---- C2 ----
\* C2: locked is monotonic: a client that is locked in a state is locked in
\* every later state, whatever event is processed.
C2_LockedMonotonic ==
    [][\A c \in ClientIds : Locked(store, c) => Locked(store', c)]_vars

C2_Witness ==
    /\ outcome = "Ok"
    /\ event.event_type \in DisputeKinds
    /\ Locked(store, event.client)
    /\ event.tx \in chargedBack
    /\ TxOf(event.tx).disputed

\* ---- C3 ----
\* C3: a stored transaction keeps its id, client and amount under every later
\* event (only disputed may change), and a transaction id enters the store
\* only by an accepted deposit or withdrawal carrying that id.
C3_TransactionImmutable ==
    [][\A t \in TxIds :
        /\ is_some(store.transactions[t])
             => /\ is_some(store'.transactions[t])
                /\ unwrap(store'.transactions[t]).id = unwrap(store.transactions[t]).id
                /\ unwrap(store'.transactions[t]).client = unwrap(store.transactions[t]).client
                /\ unwrap(store'.transactions[t]).amount = unwrap(store.transactions[t]).amount
        /\ (is_none(store.transactions[t]) /\ is_some(store'.transactions[t]))
             => /\ EventStep
                /\ event'.event_type \in DepositOrWithdrawal
                /\ event'.tx = t
                /\ outcome' = "Ok"]_vars

C3_Witness ==
    /\ outcome = "Ok"
    /\ event.event_type \in DisputeKinds
    /\ HasTx(event.tx)
    /\ TxOf(event.tx).amount # 0

\* ---- C4 ----
\* C4 (as stated): of two deposit/withdrawal events carrying the same tx id,
\* the second is always rejected with TransactionExists.
C4_SecondAlwaysRejected ==
    [][(EventStep /\ event'.event_type \in DepositOrWithdrawal
                  /\ event'.tx \in attempted)
        => outcome' = "TransactionExists"]_vars

\* C4 (amended): a deposit/withdrawal event carrying the tx id of an earlier
\* accepted deposit/withdrawal is rejected with TransactionExists and writes
\* nothing, whatever the client state and whatever disputes, resolves or
\* chargebacks that transaction went through.
C4_SecondRejectedAfterAccepted ==
    [][(EventStep /\ event'.event_type \in DepositOrWithdrawal
                  /\ txOrigin[event'.tx] # "None")
        => (outcome' = "TransactionExists" /\ store' = store)]_vars

C4_Witness ==
    /\ outcome = "TransactionExists"
    /\ event.event_type \in DepositOrWithdrawal
    /\ event.tx \in chargedBack

\* ---- C5 ----
\* C5: after an accepted chargeback on a transaction, every later dispute,
\* resolve or chargeback naming it is rejected, and the transaction's
\* disputed flag and its client's available and held no longer change
\* through it.
C5_ChargedBackInert ==
    [][\A t \in chargedBack :
        /\ unwrap(store'.transactions[t]).disputed = unwrap(store.transactions[t]).disputed
        /\ (EventStep /\ event'.event_type \in DisputeKinds /\ event'.tx = t)
             => (outcome' \in ProcessorError /\ store'.clients = store.clients)]_vars

\* ---- C6 ----
\* C6: the client ids in the store (and the rows of the final dump) are
\* exactly the ids named by accepted deposits; a client is never removed; a
\* withdrawal, dispute, resolve or chargeback naming a client that is not in
\* the store is rejected and creates none; an empty stream gives an empty dump.
C6_ClientsInv ==
    /\ {c \in ClientIds : HasClient(c)} = depositedClients
    /\ pc = "done" => /\ {row.client : row \in output} = depositedClients
                      /\ Cardinality(output) = Cardinality(depositedClients)
    /\ (pc = "done" /\ consumed = 0) => output = {}

C6_ClientsStep ==
    /\ \A c \in ClientIds : is_some(store.clients[c]) => is_some(store'.clients[c])
    /\ (EventStep /\ event'.event_type # "Deposit" /\ is_none(store.clients[event'.client]))
         => (outcome' \in ProcessorError /\ store'.clients = store.clients)

C7_SignEncodesDirection ==
    \A t \in TxIds :
        /\ txOrigin[t] = "Deposit" => TxOf(t).amount > 0
        /\ txOrigin[t] = "Withdrawal" => TxOf(t).amount < 0

\* ---- C8 ----
\* C8: a dispute naming a transaction created by a withdrawal is rejected,
\* and no transaction created by a withdrawal is ever disputed.
C8_WithdrawalNeverDisputed ==
    /\ (event.event_type = "Dispute" /\ outcome # "None"
            /\ txOrigin[event.tx] = "Withdrawal") => Rejected
    /\ \A t \in TxIds : txOrigin[t] = "Withdrawal" => ~TxOf(t).disputed

\* ---- C9 ----
\* C9: a deposit or withdrawal naming a locked client is rejected and changes
\* neither map; the rejection is ClientLocked whenever the tx id is new and,
\* for a withdrawal, the amount is present.
C9_LockedClientRejects ==
    [][(EventStep /\ event'.event_type \in DepositOrWithdrawal
                  /\ Locked(store, event'.client))
        => /\ outcome' \in ProcessorError
           /\ store' = store
           /\ (is_none(store.transactions[event'.tx])
                 /\ (event'.event_type = "Withdrawal" => is_some(event'.amount)))
                => outcome' = "ClientLocked"]_vars

C9_Witness ==
    /\ outcome = "ClientLocked"
    /\ event.event_type = "Withdrawal"
    /\ Locked(store, event.client)
    /\ unwrap(event.amount) <= ClientOf(event.client).available

\* ---- C10 ----
\* C10 (as stated): a withdrawal succeeds only when its amount is <= the
\* client's available; a withdrawal whose amount exceeds available is
\* rejected with WithdrawalAboveBalance and leaves the client unchanged; the
\* available balance right after an accepted withdrawal is never negative.
C10_ExceedingWithdrawalRejected ==
    [][(EventStep /\ event'.event_type = "Withdrawal")
        => LET c == event'.client IN
           /\ outcome' = "Ok"
                => /\ is_some(store.clients[c])
                   /\ unwrap(event'.amount) <= unwrap(store.clients[c]).available
                   /\ unwrap(store'.clients[c]).available >= 0
           /\ (is_some(event'.amount) /\ is_some(store.clients[c])
                 /\ unwrap(event'.amount) > unwrap(store.clients[c]).available)
                => /\ outcome' = "WithdrawalAboveBalance"
                   /\ store'.clients[c] = store.clients[c]]_vars

\* C10 (amended): as above, except that the rejection of a withdrawal whose
\* amount exceeds available is WithdrawalAboveBalance when the tx id is new
\* and the client is not locked; otherwise it is the rejection of the
\* earlier precondition (TransactionExists, ClientLocked).
C10_WithdrawalWithinBalance ==
    [][(EventStep /\ event'.event_type = "Withdrawal")
        => LET c == event'.client IN
           /\ outcome' = "Ok"
                => /\ is_some(store.clients[c])
                   /\ unwrap(event'.amount) <= unwrap(store.clients[c]).available
                   /\ unwrap(store'.clients[c]).available >= 0
           /\ (is_some(event'.amount) /\ is_some(store.clients[c])
                 /\ unwrap(event'.amount) > unwrap(store.clients[c]).available)
                => /\ outcome' \in ProcessorError
                   /\ store'.clients[c] = store.clients[c]
                   /\ (is_none(store.transactions[event'.tx]) /\ ~Locked(store, c))
                        => outcome' = "WithdrawalAboveBalance"
                   /\ is_some(store.transactions[event'.tx])
                        => outcome' = "TransactionExists"
                   /\ (is_none(store.transactions[event'.tx]) /\ Locked(store, c))
                        => outcome' = "ClientLocked"]_vars

C10_Witness ==
    /\ outcome = "WithdrawalAboveBalance"
    /\ event.event_type = "Withdrawal"
    /\ HasClient(event.client)
    /\ unwrap(event.amount) > ClientOf(event.client).available
    /\ ClientOf(event.client).available >= 0
    /\ ~HasTx(event.tx)

\* ---- C11 ----
\* C11: an accepted deposit of amount a on tx t for client c leaves client c
\* stored with id c; if c was absent its held is 0, locked is false and
\* available is a; otherwise exactly a is added to available and held and
\* locked are unchanged; transaction t is stored with client c, amount a and
\* disputed = false.
C11_DepositEffect ==
    [][(EventStep /\ event'.event_type = "Deposit" /\ outcome' = "Ok")
        => LET c == event'.client
               t == event'.tx
               a == unwrap(event'.amount)
               old == store.clients[c]
           IN /\ is_some(event'.amount)
              /\ is_none(store.transactions[t])
              /\ is_some(store'.clients[c])
              /\ unwrap(store'.clients[c]).id = c
              /\ is_none(old)
                   => unwrap(store'.clients[c]) =
                        [id |-> c, available |-> a, held |-> 0, locked |-> FALSE]
              /\ is_some(old)
                   => unwrap(store'.clients[c]) =
                        [id |-> c, available |-> unwrap(old).available + a,
                         held |-> unwrap(old).held, locked |-> unwrap(old).locked]
              /\ store'.transactions[t] =
                   Some([id |-> t, client |-> c, amount |-> a, disputed |-> FALSE])]_vars

C11_Witness ==
    /\ outcome = "Ok"
    /\ event.event_type = "Deposit"
    /\ event.client # 0
    /\ unwrap(event.amount) # 0
    /\ ClientOf(event.client).held # 0

\* ---- C12, C13: the first violated precondition in a fixed order ----
FirstOf(order, violated) ==
    IF \E i \in 1..Len(order) : order[i] \in violated
    THEN order[CHOOSE i \in 1..Len(order) :
                  /\ order[i] \in violated
                  /\ \A j \in 1..(i - 1) : order[j] \notin violated]
    ELSE "Ok"

DepositOrder == <<"TransactionExists", "ClientLocked", "NoAmount">>

WithdrawalOrder == <<"TransactionExists", "NoAmount", "ClientMissing", "ClientLocked",
                     "WithdrawalAboveBalance">>

DisputeOrder == <<"TransactionMissing", "TransactionDisputed", "WithdrawalNotDisputable",
                  "ClientMissing", "ClientTransactionMismatch">>

CloseOrder == <<"TransactionMissing", "TransactionNotDisputed", "ClientMissing",
                "ClientTransactionMismatch">>

\* The preconditions that event ev violates in store st, each judged on its own.
Violated(st, ev) ==
    LET mt == st.transactions[ev.tx]
        mc == st.clients[ev.client]
        money == ev.event_type \in DepositOrWithdrawal
    IN  {e \in ProcessorError :
            \/ e = "TransactionExists" /\ money /\ is_some(mt)
            \/ e = "NoAmount" /\ money /\ is_none(ev.amount)
            \/ e = "ClientLocked" /\ money /\ is_some(mc) /\ unwrap(mc).locked
            \/ e = "ClientMissing" /\ ev.event_type # "Deposit" /\ is_none(mc)
            \/ e = "WithdrawalAboveBalance" /\ ev.event_type = "Withdrawal"
                  /\ is_some(ev.amount) /\ is_some(mc)
                  /\ unwrap(ev.amount) > unwrap(mc).available
            \/ e = "TransactionMissing" /\ ~money /\ is_none(mt)
            \/ e = "TransactionDisputed" /\ ev.event_type = "Dispute"
                  /\ is_some(mt) /\ unwrap(mt).disputed
            \/ e = "WithdrawalNotDisputable" /\ ev.event_type = "Dispute"
                  /\ is_some(mt) /\ unwrap(mt).amount < 0
            \/ e = "TransactionNotDisputed" /\ ev.event_type \in {"Resolve", "Chargeback"}
                  /\ is_some(mt) /\ ~unwrap(mt).disputed
            \/ e = "ClientTransactionMismatch" /\ ~money /\ is_some(mt) /\ is_some(mc)
                  /\ unwrap(mt).client # unwrap(mc).id}

\* ---- C12 ----
\* C12: a deposit or withdrawal reports exactly the first precondition it
\* violates, deposits in the order TransactionExists, ClientLocked, NoAmount,
\* withdrawals in the order TransactionExists, NoAmount, ClientMissing,
\* ClientLocked, WithdrawalAboveBalance; it is accepted when it violates none.
C12_MoneyEventsReportFirst ==
    [][(EventStep /\ event'.event_type \in DepositOrWithdrawal)
        => outcome' = FirstOf(IF event'.event_type = "Deposit"
                              THEN DepositOrder ELSE WithdrawalOrder,
                              Violated(store, event'))]_vars

C12_Witness ==
    /\ event.event_type = "Deposit"
    /\ outcome = "ClientLocked"
    /\ is_none(event.amount)
    /\ ~HasTx(event.tx)

\* ---- C13 ----
\* C13: a dispute, resolve or chargeback reports exactly the first
\* precondition it violates, disputes in the order TransactionMissing,
\* TransactionDisputed, WithdrawalNotDisputable, ClientMissing,
\* ClientTransactionMismatch, resolves and chargebacks in the order
\* TransactionMissing, TransactionNotDisputed, ClientMissing,
\* ClientTransactionMismatch; it is accepted when it violates none.
C13_DisputeEventsReportFirst ==
    [][(EventStep /\ event'.event_type \in DisputeKinds)
        => outcome' = FirstOf(IF event'.event_type = "Dispute"
                              THEN DisputeOrder ELSE CloseOrder,
                              Violated(store, event'))]_vars

C13_Witness ==
    /\ event.event_type = "Resolve"
    /\ outcome = "TransactionNotDisputed"
    /\ HasTx(event.tx)
    /\ HasClient(event.client)
    /\ TxOf(event.tx).client # event.client

\* ---- C14 ----
\* The record read by this step is a dispute, resolve or chargeback of a stored
\* transaction whose owner is not the client it names.
ForeignStep ==
    /\ EventStep
    /\ event'.event_type \in DisputeKinds
    /\ HasTx(event'.tx)
    /\ TxOf(event'.tx).client # event'.client

\* C14 as stated: every dispute, resolve or chargeback naming a client other
\* than the owner of the referenced transaction is rejected with
\* client-transaction-mismatch when the named client exists and with
\* client-missing when it does not, and nothing changes.
C14_ForeignAlwaysMismatch ==
    [][ForeignStep
        => /\ outcome' = IF HasClient(event'.client)
                         THEN "ClientTransactionMismatch" ELSE "ClientMissing"
           /\ store' = store]_vars

\* C14 amended: such an event never succeeds and changes neither the named
\* client, nor the owning client, nor the transaction; it is rejected with
\* client-transaction-mismatch (named client exists) or client-missing (it does
\* not) when the transaction passes the checks made before the client is
\* looked at, and with the error of the first of those checks otherwise.
C14_ForeignNeverSucceeds ==
    [][ForeignStep
        => LET tx == TxOf(event'.tx)
               txError ==
                   IF event'.event_type = "Dispute"
                   THEN IF tx.disputed THEN "TransactionDisputed"
                        ELSE IF tx.amount < 0 THEN "WithdrawalNotDisputable"
                        ELSE "Ok"
                   ELSE IF ~tx.disputed THEN "TransactionNotDisputed" ELSE "Ok"
           IN /\ outcome' \in ProcessorError
              /\ store'.clients[event'.client] = store.clients[event'.client]
              /\ store'.clients[tx.client] = store.clients[tx.client]
              /\ store'.transactions[event'.tx] = store.transactions[event'.tx]
              /\ outcome' = IF txError # "Ok" THEN txError
                            ELSE IF HasClient(event'.client)
                            THEN "ClientTransactionMismatch" ELSE "ClientMissing"]_vars

C14_Witness ==
    /\ event.event_type \in DisputeKinds
    /\ outcome = "ClientTransactionMismatch"
    /\ HasClient(TxOf(event.tx).client)
    /\ TxOf(event.tx).amount # 0

C16_ChargebackEffect ==
    [][(EventStep /\ event'.event_type = "Chargeback")
        => LET c == event'.client
               t == event'.tx
           IN /\ outcome' = "Ok"
                   => /\ HasTx(t) /\ TxOf(t).disputed /\ HasClient(c)
                      /\ unwrap(store'.clients[c]).held = ClientOf(c).held - TxOf(t).amount
                      /\ unwrap(store'.clients[c]).available = ClientOf(c).available
                      /\ unwrap(store'.clients[c]).locked
                      /\ ~unwrap(store'.transactions[t]).disputed
              /\ (HasTx(t) /\ ~TxOf(t).disputed)
                   => /\ outcome' = "TransactionNotDisputed"
                      /\ \A k \in ClientIds : Locked(store', k) => Locked(store, k)]_vars

C16_Witness ==
    /\ event.event_type = "Chargeback"
    /\ outcome = "Ok"
    /\ TxOf(event.tx).amount # 0
    /\ ClientOf(event.client).available # 0

\* ---- C17 ----
\* C17: a rejected or unparsable record never stops the run: the step that
\* reads it logs a message, leaves the store alone and stays in the loop; the
\* position in the stream only moves forward one record at a time; and a run
\* that opened its input eventually has read every record of the stream, dumps
\* the clients and returns Ok.
C17_RunCompletes ==
    /\ [][/\ consumed' = consumed \/ RecordStep
          /\ RecordStep => pc = "loop" /\ pc' = "loop"
          /\ (RecordStep /\ outcome' # "Ok")
               => is_some(logged') /\ store' = store
          /\ (pc # "done" /\ pc' = "done")
               => /\ consumed = length
                  /\ output' = {serialize(c) : c \in dump_clients(store)}]_vars
    /\ (pc = "loop") ~> (pc = "done" /\ consumed = length)

C17_Witness ==
    /\ pc = "done"
    /\ consumed = length
    /\ length >= 3
    /\ outcome \in ProcessorError \cup {"ParseError"}
    /\ is_some(logged)
    /\ output # {}

\* ---- C18 ----
\* C18: a dispute is judged without looking at the available balance: a
\* dispute of a stored, undisputed transaction with a non-negative amount by
\* its owner is accepted and takes the amount from available whatever
\* available is, so available can go below zero (deposit, withdrawal of the
\* deposited funds, dispute of the deposit).
C18_DisputeHasNoFloor ==
    [][(/\ EventStep
        /\ event'.event_type = "Dispute"
        /\ HasTx(event'.tx)
        /\ ~TxOf(event'.tx).disputed
        /\ TxOf(event'.tx).amount >= 0
        /\ HasClient(event'.client)
        /\ TxOf(event'.tx).client = event'.client)
        => /\ outcome' = "Ok"
           /\ unwrap(store'.clients[event'.client]).available =
                ClientOf(event'.client).available - TxOf(event'.tx).amount]_vars

C18_Witness ==
    /\ event.event_type = "Dispute"
    /\ outcome = "Ok"
    /\ txOrigin[event.tx] = "Deposit"
    /\ TxOf(event.tx).amount > 0
    /\ ClientOf(event.client).available < 0
    /\ ClientOf(event.client).held = TxOf(event.tx).amount
    /\ \E t \in TxIds : /\ txOrigin[t] = "Withdrawal"
                        /\ TxOf(t).client = event.client
                        /\ TxOf(t).amount = 0 - TxOf(event.tx).amount

\* ---- C19, C20: balances against the stored transactions ----
OwnedBy(st, c) ==
    {t \in TxIds : is_some(st.transactions[t]) /\ unwrap(st.transactions[t]).client = c}

DisputedOf(st, c) == {t \in OwnedBy(st, c) : unwrap(st.transactions[t]).disputed}

RECURSIVE SumAmounts(_, _)
SumAmounts(st, ids) ==
    IF ids = {} THEN 0
    ELSE LET t == CHOOSE x \in ids : TRUE
         IN unwrap(st.transactions[t]).amount + SumAmounts(st, ids \ {t})

C21_FrameOfAcceptedEvent ==
    [][(EventStep /\ outcome' = "Ok")
        => /\ \A c \in ClientIds \ {event'.client} :
                 store'.clients[c] = store.clients[c]
           /\ \A t \in TxIds \ {event'.tx} :
                 store'.transactions[t] = store.transactions[t]
           /\ \A c \in ClientIds :
                 is_some(store'.clients[c]) => unwrap(store'.clients[c]).id = c
           /\ \A t \in TxIds :
                 is_some(store'.transactions[t])
                    => unwrap(store'.transactions[t]).id = t]_vars

C21_Witness ==
    /\ outcome = "Ok"
    /\ event.event_type \in DisputeKinds
    /\ event.client # 0
    /\ \E c \in ClientIds \ {event.client} :
          HasClient(c) /\ ClientOf(c).available # 0
    /\ \E t \in TxIds \ {event.tx} :
          HasTx(t) /\ TxOf(t).client # event.client

====
